---- MODULE Spec2Model ----
(***************************************************************************)
(* The "run" and "install" management commands of django-docsnaps         *)
(* (src/src/django_docsnaps/management/commands/_run.py and _install.py,   *)
(* src/src/docsnaps/management/commands/_install.py) together with the     *)
(* storage they read and write (src/src/docsnaps/models.py).               *)
(*                                                                         *)
(* One behaviour is a sequence of invocations of Command.handle.  Each     *)
(* invocation queries the enabled jobs, queries the latest snapshot of     *)
(* every job once, creates one asyncio task per job and waits for all of   *)
(* them.  A task is suspended once, in the HTTP request; everything after  *)
(* the response runs without yielding to the event loop (Model.save() is   *)
(* a synchronous call), so it is one step.                                  *)
(***************************************************************************)
EXTENDS Integers, Sequences, FiniteSets, TLC

\* ---- bounds of the model ------------------------------------------------
NumJobs == 2        \* DocumentsLanguages rows in storage
MaxSnapshots == 2   \* Snapshot rows in storage when the command is first run
MaxGraphs == 2      \* models in the value of a plug-in's get_models()

JobIds == 1..NumJobs
Datetimes == {1, 2}          \* timestamps of the stored snapshots
Texts == {"v1", "v2"}        \* document texts
NULL == 0                    \* SQL NULL / Python None in a date column
NoText == "None"             \* Python None where a text is expected
FetchErrors == {"network-error", "http-status-error", "timeout"}

VARIABLES
    documents_languages,  \* table documents_languages: id -> row
    snapshot_table,       \* table snapshot: a set of rows
    pc,                   \* position of handle / _execute_enabled_jobs
    enabled_jobs,         \* handle's local enabled_jobs (a sequence of ids)
    snapshots,            \* _execute_enabled_jobs' local dict of latest snapshots
    tasks,                \* _execute_enabled_jobs' local list of tasks
    run_status,           \* handle's local run_status, written to stdout
    table_at_query,       \* the snapshot table as _get_latest_snapshots read it
    run_exception,        \* the exception that left handle ("" for none)
    client_session        \* the aiohttp.ClientSession of _execute_enabled_jobs

run_vars == <<documents_languages, snapshot_table, pc, enabled_jobs,
              snapshots, tasks, run_status, table_at_query, run_exception,
              client_session>>

\* The install command (management/commands/_install.py of both packages).
VARIABLES
    package,       \* the package whose install command runs
    db,            \* the tables the loader writes, each a set of rows
    ipc,           \* position of the install command's handle
    module,        \* the plug-in module named on the command line
    options_disabled,  \* the --disabled option
    savepoint,     \* the tables when transaction.atomic() was entered
    db_at_begin,   \* the tables when handle was invoked
    loaders,       \* the ModelLoader of every iteration of _load_models
    stdout,        \* the lines the install command has written
    command_error  \* the CommandError that left handle

install_vars == <<package, db, ipc, module, options_disabled, savepoint,
                  db_at_begin, loaders, stdout, command_error>>

\* One call of flatten_model_graph (management/commands/_utils.py).
VARIABLES
    flatten_model,  \* the argument of the call
    model_queue,    \* the generator's deque
    flattened,      \* the models the generator has yielded, in order
    fpc             \* the generator: not called, running or exhausted

utils_vars == <<flatten_model, model_queue, flattened, fpc>>

vars == <<run_vars, install_vars, utils_vars>>

\* ---- storage: the Snapshot model ----------------------------------------

\* The value a task is given when its job has no snapshot (dict.get default).
NoSnapshot ==
    [snapshot_id |-> 0, documents_languages_id |-> 0, date |-> NULL,
     time |-> NULL, datetime |-> NULL, text |-> NoText]

\* Snapshot.snapshot_id is an AutoField; rows are never deleted.
NextSnapshotId(table) == Cardinality(table) + 1

\* The constraints of the snapshot table: date, time and datetime are
\* null=False, documents_languages_id is a foreign key, and
\* (documents_languages_id, datetime) is unique_together.
SnapshotIntegrityOK(table, row) ==
    /\ row.date # NULL
    /\ row.time # NULL
    /\ row.datetime # NULL
    /\ row.documents_languages_id \in JobIds
    /\ ~ \E s \in table :
            /\ s.documents_languages_id = row.documents_languages_id
            /\ s.datetime = row.datetime

\* Model.save() of a new Snapshot: the INSERT either satisfies the table's
\* constraints or raises django.db.IntegrityError and stores nothing.
SnapshotSave(table, row) ==
    IF SnapshotIntegrityOK(table, row)
    THEN [exception |-> "", table |-> table \cup {row}]
    ELSE [exception |-> "IntegrityError", table |-> table]

\* Snapshot.objects.create(documents_languages_id=, date=, time=, datetime=,
\* text=) as the fixtures call it: date and time are the parts of datetime.
SnapshotCreate(table, dl, dt, text) ==
    SnapshotSave(table,
        [snapshot_id |-> NextSnapshotId(table), documents_languages_id |-> dl,
         date |-> dt, time |-> dt, datetime |-> dt, text |-> text]).table

\* The keys (documents_languages_id, datetime) of seeded rows, and their order.
SeedKeys == JobIds \X Datetimes
KeyLess(a, b) == a[1] < b[1] \/ (a[1] = b[1] /\ a[2] < b[2])

\* The table after creating one snapshot per key of K, in ascending key
\* order, with the texts f.
RECURSIVE CreateAll(_, _, _)
CreateAll(table, K, f) ==
    IF K = {} THEN table
    ELSE LET k == CHOOSE a \in K : \A b \in K \ {a} : KeyLess(a, b)
         IN  CreateAll(SnapshotCreate(table, k[1], k[2], f[k]), K \ {k}, f)

\* The contents of the snapshot table, of at most n rows, when the command
\* is run: the rows earlier Snapshot.objects.create calls have stored.
SeededTables(n) ==
    UNION { { CreateAll({}, K, f) : f \in [K -> Texts] } :
            K \in { K \in SUBSET SeedKeys : Cardinality(K) <= n } }

\* ---- the queries of the run command -------------------------------------

\* The elements of a finite set of integers in ascending order.
RECURSIVE SortedSeq(_)
SortedSeq(S) ==
    IF S = {} THEN <<>>
    ELSE LET m == CHOOSE x \in S : \A y \in S : x <= y
         IN  <<m>> \o SortedSeq(S \ {m})

\* _get_active_jobs without the filter: DocumentsLanguages.objects.all().
get_active_jobs_all(dl_table) == SortedSeq(DOMAIN dl_table)

\* _get_active_jobs: DocumentsLanguages.objects.filter(is_enabled=True).
get_active_jobs(dl_table) ==
    SortedSeq({ j \in DOMAIN dl_table : dl_table[j].is_enabled })

\* The query with the comparison of the self-join reversed
\* (snapshot_2.datetime < snapshot.datetime): it selects the earliest rows.
LatestSnapshotRows_earliest(table, dl_table) ==
    { s \in table :
        /\ ~ \E s2 \in table :
                /\ s2.documents_languages_id = s.documents_languages_id
                /\ s2.datetime < s.datetime
        /\ \E j \in DOMAIN dl_table :
                /\ j = s.documents_languages_id
                /\ dl_table[j].is_enabled }

\* The query without "AND is_enabled IS TRUE" in the INNER JOIN.
LatestSnapshotRows_any_job(table, dl_table) ==
    { s \in table :
        /\ ~ \E s2 \in table :
                /\ s2.documents_languages_id = s.documents_languages_id
                /\ s2.datetime > s.datetime
        /\ \E j \in DOMAIN dl_table : j = s.documents_languages_id }

\* The rows selected by the SQL of _get_latest_snapshots: a snapshot with no
\* later snapshot of the same documents_languages_id (LEFT JOIN ... WHERE
\* snapshot_2.snapshot_id IS NULL), INNER JOINed to an enabled
\* documents_languages row.
LatestSnapshotRows(table, dl_table) ==
    { s \in table :
        /\ ~ \E s2 \in table :
                /\ s2.documents_languages_id = s.documents_languages_id
                /\ s2.datetime > s.datetime
        /\ \E j \in DOMAIN dl_table :
                /\ j = s.documents_languages_id
                /\ dl_table[j].is_enabled }

\* _get_latest_snapshots: the rows keyed by raw_documents_languages_id.
get_latest_snapshots(table, dl_table) ==
    LET rows == LatestSnapshotRows(table, dl_table)
        keys == { s.documents_languages_id : s \in rows }
    IN  [ k \in keys |-> CHOOSE s \in rows : s.documents_languages_id = k ]

\* snapshots.get(job.documents_languages_id, None)
DictGet(dict, key) == IF key \in DOMAIN dict THEN dict[key] ELSE NoSnapshot

\* ---- one job: _execute_single_job --------------------------------------

\* loop.create_task(self._execute_single_job(job, client_session, snapshot))
NewTask(job, snapshot) ==
    [job |-> job, snapshot |-> snapshot, state |-> "Pending",
     fetch_result |-> "", exception |-> "", text |-> NoText,
     doc_is_changed |-> FALSE, steps |-> <<"Pending">>, response |-> "none"]

\* The task ended: its coroutine returned or raised.
Terminal(t) == t.state \in {"Unchanged", "Persisted", "Failed"}

\* _request_document with an except clause that reports the failure and falls
\* through to "return response_text", which is still None.
request_document_swallow(result) ==
    IF result \in FetchErrors
    THEN [exception |-> "", response_text |-> NoText]
    ELSE [exception |-> "", response_text |-> result]

\* _request_document for the given outcome of the GET (a text or one of the
\* FetchErrors).  An exception raised in the try block reaches the except
\* clause, whose class tuple names asyncio.errors: evaluating it raises
\* AttributeError, which leaves the coroutine.
request_document(result) ==
    IF result \in FetchErrors
    THEN [exception |-> "AttributeError", response_text |-> NoText]
    ELSE [exception |-> "", response_text |-> result]

\* The ClientResponse when _request_document is left: "none" if the GET gave
\* no response (connection failure, timeout), else released or still open.
\* django_docsnaps holds it in "async with client_session.get(...)", which
\* releases it on every exit; docsnaps awaits get() and calls
\* response.close() after response.text(), which raise_for_status() does
\* not reach when it raises.
response_after_request(pkg, result) ==
    IF result \in {"network-error", "timeout"} THEN "none"
    ELSE IF pkg = "docsnaps" /\ result = "http-status-error" THEN "open"
    ELSE "released"

\* What the task records of the GET: the error, or that a text arrived.
FetchOutcome(result) == IF result \in FetchErrors THEN result ELSE "ok"

\* _import_job_module: importlib.import_module either returns the module or
\* raises ImportError, which is re-raised as CommandError.
import_job_module(import_ok) ==
    IF import_ok THEN [exception |-> ""] ELSE [exception |-> "CommandError"]

\* What the plug-in's transform(doc_text) can do: raise, or return the pair
\* (transformed_doc_text, doc_is_changed).
TransformResults ==
    {[raises |-> TRUE, text |-> NoText, doc_is_changed |-> FALSE]}
    \cup [raises : {FALSE}, text : Texts, doc_is_changed : BOOLEAN]

\* _save_new_snapshot calling save() on the job's latest stored Snapshot
\* with the new text (an UPDATE) when the job has one.
save_new_snapshot_updates_latest(table, job, snapshot_text) ==
    LET rows == {s \in table : s.documents_languages_id = job}
        latest == CHOOSE s \in rows : \A r \in rows : r.datetime <= s.datetime
    IN  IF rows = {}
        THEN SnapshotSave(table,
                 [snapshot_id |-> NextSnapshotId(table),
                  documents_languages_id |-> job, date |-> NULL,
                  time |-> NULL, datetime |-> NULL, text |-> snapshot_text])
        ELSE [exception |-> "",
              table |-> (table \ {latest})
                            \cup {[latest EXCEPT !.text = snapshot_text]}]

\* _save_new_snapshot: Snapshot(documents_languages_id=job, text=snapshot_text)
\* followed by save(); date, time and datetime are not given.
save_new_snapshot(table, job, snapshot_text) ==
    SnapshotSave(table,
        [snapshot_id |-> NextSnapshotId(table), documents_languages_id |-> job,
         date |-> NULL, time |-> NULL, datetime |-> NULL,
         text |-> snapshot_text])

Fail(t, exc) ==
    [t EXCEPT !.state = "Failed", !.exception = exc,
              !.steps = @ \o <<"Failed">>]

\* _execute_single_job from the resumption after the GET to the end of the
\* coroutine: the task as it ends and the snapshot table it leaves.
execute_single_job(t, table, result, import_ok, tr) ==
    LET req == request_document(result)
        t1 == [t EXCEPT !.fetch_result = FetchOutcome(result),
                        !.response = response_after_request(package, result)]
        imp == import_job_module(import_ok)
        t2 == [t1 EXCEPT !.steps = @ \o <<"Transforming">>]
        t3 == [t2 EXCEPT !.text = tr.text, !.doc_is_changed = tr.doc_is_changed]
        saved == save_new_snapshot(table, t.job, tr.text)
        t4 == [t3 EXCEPT !.steps = @ \o <<"Persisting">>]
    IN  IF req.exception # ""
        THEN [task |-> Fail(t1, req.exception), table |-> table]
        ELSE IF imp.exception # ""
        THEN [task |-> Fail(t2, imp.exception), table |-> table]
        ELSE IF tr.raises
        THEN [task |-> Fail(t2, "Exception"), table |-> table]
        ELSE IF tr.doc_is_changed
        THEN IF saved.exception # ""
             THEN [task |-> Fail(t4, saved.exception), table |-> saved.table]
             ELSE [task |-> [t4 EXCEPT !.state = "Persisted",
                                       !.steps = @ \o <<"Persisted">>],
                   table |-> saved.table]
        ELSE [task |-> [t3 EXCEPT !.state = "Unchanged",
                                  !.steps = @ \o <<"Unchanged">>],
              table |-> table]

\* ---- the install command: plug-in modules and their model graphs ---------
\* Two packages of the repository carry an install command:
\* django_docsnaps (Document has a module field, there is no Company and no
\* Service, the Transform registration is commented out) and docsnaps
\* (Company -> Service -> Document, Transform registered by the loader).
Packages == {"django_docsnaps", "docsnaps"}

ModuleName == "mock.module"      \* module.__name__ of the plug-in
Websites == {"https://test.tset", "https://other.tset"}
DocumentNames == {"Terms of Use", "Privacy Policy"}
LanguageNames == {"English", "Anglais"}
Urls == {"help.test.tset/legal/termsofuse?locale=en",
         "help.test.tset/tos?locale=en"}
EntityClasses ==
    {"Company", "Service", "Document", "Language", "DocumentsLanguages"}

\* str() of a Python bool.
Str(b) == IF b THEN "True" ELSE "False"

\* str.lower() on the language names.
Lower(name) == IF name = "English" THEN "english" ELSE "anglais"

\* A DocumentsLanguages instance as a plug-in builds it, with the instances
\* its foreign keys point to.  class is the instance's class and
\* graph_classes the classes flatten_model_graph finds under it.
ModelGraph(company_w, service_w, doc_name, lang_name, url, is_enabled) ==
    [class |-> "DocumentsLanguages",
     graph_classes |-> EntityClasses,
     document_id |->
        [name |-> doc_name,
         module |-> ModuleName,
         service_id |->
            [name |-> "Test",
             website |-> service_w,
             company_id |->
                [name |-> "Test, Inc.", website |-> company_w]]],
     language_id |-> [code_iso_639_1 |-> "en", name |-> lang_name],
     url |-> url,
     is_enabled |-> is_enabled]

\* The graph of the tests' fixture.
BaseGraph ==
    ModelGraph("https://test.tset", "https://test.tset", "Terms of Use",
               "English", "help.test.tset/legal/termsofuse?locale=en", TRUE)

\* The fixture and the graphs that differ from it in one field, or in url
\* and is_enabled together.
Graphs ==
    {BaseGraph}
    \cup {ModelGraph(w, "https://test.tset", "Terms of Use", "English",
                     BaseGraph.url, TRUE) : w \in Websites}
    \cup {ModelGraph("https://test.tset", w, "Terms of Use", "English",
                     BaseGraph.url, TRUE) : w \in Websites}
    \cup {ModelGraph("https://test.tset", "https://test.tset", d, "English",
                     BaseGraph.url, TRUE) : d \in DocumentNames}
    \cup {ModelGraph("https://test.tset", "https://test.tset", "Terms of Use",
                     n, BaseGraph.url, TRUE) : n \in LanguageNames}
    \cup {ModelGraph("https://test.tset", "https://test.tset", "Terms of Use",
                     "English", u, e) : u \in Urls, e \in BOOLEAN}

\* Elements of get_models() that _validate_module_models rejects: an instance
\* of another class, and a DocumentsLanguages without a Language under it.
WrongTypeModel == [BaseGraph EXCEPT !.class = "Company"]
IncompleteModel ==
    [BaseGraph EXCEPT !.graph_classes = EntityClasses \ {"Language"}]

RECURSIVE SeqsUpTo(_, _)
SeqsUpTo(S, n) ==
    IF n = 0 THEN {<<>>}
    ELSE LET shorter == SeqsUpTo(S, n - 1)
         IN  shorter \cup {Append(s, x) : s \in shorter, x \in S}

\* What module.get_models() can return: an object that is not iterable
\* (falsy like None, or truthy like an int), or a list.
GetModelsResults ==
    {[iterable |-> FALSE, truthy |-> t, items |-> <<>>] : t \in BOOLEAN}
    \cup {[iterable |-> TRUE, truthy |-> s # <<>>, items |-> s] :
            s \in SeqsUpTo(Graphs, MaxGraphs)}
    \cup {[iterable |-> TRUE, truthy |-> TRUE, items |-> Append(s, x)] :
            s \in SeqsUpTo(Graphs, MaxGraphs - 1),
            x \in {WrongTypeModel, IncompleteModel}}

\* The module named on the command line: whether import_module finds it,
\* which of the two necessary callables it lacks or has as an attribute that
\* is not callable, and its get_models().
NoGetModels == [iterable |-> FALSE, truthy |-> FALSE, items |-> <<>>]
NecessaryCallables == <<"get_models", "transform">>
Modules ==
    {[importable |-> FALSE, missing |-> {}, not_callable |-> {},
      get_models |-> NoGetModels]}
    \cup {m \in [importable : {TRUE},
                 missing : SUBSET {"get_models", "transform"},
                 not_callable : SUBSET {"get_models", "transform"},
                 get_models : {NoGetModels}] :
             /\ m.missing \cap m.not_callable = {}
             /\ m.missing \cup m.not_callable # {}}
    \cup {[importable |-> TRUE, missing |-> {}, not_callable |-> {},
           get_models |-> r] : r \in GetModelsResults}

\* ---- the install command: storage ---------------------------------------
EmptyDb ==
    [company |-> {}, service |-> {}, document |-> {}, language |-> {},
     documents_languages |-> {}, transform |-> {}]

\* The rows of a table that a lookup (a record of field values) selects.
Filter(table, lookup) ==
    {row \in table : \A f \in DOMAIN lookup : row[f] = lookup[f]}

\* QuerySet.get_or_create without the lookup: a row is always inserted.
get_or_create_always_creates(table, pk, lookup, defaults) ==
    LET row == (pk :> Cardinality(table) + 1) @@ lookup @@ defaults
    IN  [exception |-> "", object |-> row, created |-> TRUE,
         table |-> table \cup {row}]

\* QuerySet.get_or_create that looks the row up by the defaults as well.
get_or_create_matches_defaults(table, pk, lookup, defaults) ==
    LET found == Filter(table, lookup @@ defaults)
        row == (pk :> Cardinality(table) + 1) @@ lookup @@ defaults
    IN  IF found = {}
        THEN [exception |-> "", object |-> row, created |-> TRUE,
              table |-> table \cup {row}]
        ELSE [exception |-> "", object |-> CHOOSE r \in found : TRUE,
              created |-> FALSE, table |-> table]

\* QuerySet.get_or_create(**lookup, defaults=defaults) on a table whose
\* AutoField primary key is pk.
get_or_create(table, pk, lookup, defaults) ==
    LET found == Filter(table, lookup)
        row == (pk :> Cardinality(table) + 1) @@ lookup @@ defaults
    IN  IF found = {}
        THEN [exception |-> "", object |-> row, created |-> TRUE,
              table |-> table \cup {row}]
        ELSE IF Cardinality(found) = 1
        THEN [exception |-> "", object |-> CHOOSE r \in found : TRUE,
              created |-> FALSE, table |-> table]
        ELSE [exception |-> "MultipleObjectsReturned",
              object |-> CHOOSE r \in found : TRUE,
              created |-> FALSE, table |-> table]

\* The unique and unique_together constraints of the models of a package.
NaturalKeysUnique(d, pkg) ==
    /\ \A a, b \in d.company : a.name = b.name => a = b
    /\ \A a, b \in d.service :
          a.company_id = b.company_id /\ a.name = b.name => a = b
    /\ \A a, b \in d.document :
          /\ a.name = b.name
          /\ IF pkg = "docsnaps" THEN a.service_id = b.service_id
                                 ELSE a.module = b.module
          => a = b
    /\ \A a, b \in d.language : a.code_iso_639_1 = b.code_iso_639_1 => a = b
    /\ \A a, b \in d.documents_languages :
          a.document_id = b.document_id /\ a.language_id = b.language_id
          => a = b
    /\ \A a, b \in d.transform :
          a.document_id = b.document_id /\ a.module = b.module => a = b

\* ---- the install command: ModelLoader -----------------------------------
\* A warning of the loader.  The code builds a string; the record keeps the
\* parts the string is formatted from.
Warning(entity, kind, field, existing, incoming) ==
    [entity |-> entity, kind |-> kind, field |-> field,
     existing |-> existing, incoming |-> incoming]

\* docsnaps ModelLoader._generate_warning for one field name.
generate_warning(entity, field, existing_value, new_value) ==
    Warning(entity, "will not be updated", field, existing_value, new_value)

\* The loader's result: the exception that left __init__ ("" if none), the
\* storage as the loader leaves it, its warnings, and the classes of the
\* records that get_or_create found already stored.
LoaderResult(exception, d, warnings, found_existing) ==
    [exception |-> exception, db |-> d, warnings |-> warnings,
     found_existing |-> found_existing, load_successful |-> exception = ""]

\* A loader that an exception left at storage d.
Raised(exception, d) == LoaderResult(exception, d, <<>>, {})

Found(result, class) == IF result.created THEN {} ELSE {class}

\* Model.save() of an existing row whose url was assigned.
save_url(table, row, url) == (table \ {row}) \cup {[row EXCEPT !.url = url]}

\* A foreign key given the incoming model object, which was never saved and
\* has no primary key.
StoredKey_of_incoming(result, pk) == NULL

\* The value of a foreign key argument such as company_id=company: the
\* primary key of the row get_or_create returned.
StoredKey(result, pk) == result.object[pk]

\* Transform.objects.create(document_id=, module=) in the place of
\* get_or_create: a second row of a registered (document, module) violates
\* unique_together.
register_transform_creates(table, document_id, module_name) ==
    LET lookup == [document_id |-> document_id, module |-> module_name]
        row == ("transform_id" :> Cardinality(table) + 1) @@ lookup
    IN  IF Filter(table, lookup) = {}
        THEN [exception |-> "", object |-> row, created |-> TRUE,
              table |-> table \cup {row}]
        ELSE [exception |-> "IntegrityError", object |-> row,
              created |-> FALSE, table |-> table]

\* Transform.objects.get_or_create(document_id=document,
\* module=self._module_name) of the docsnaps loader.
register_transform(table, document_id, module_name) ==
    get_or_create(table, "transform_id",
        [document_id |-> document_id, module |-> module_name], <<>>)

\* ModelLoader._load of docsnaps.  db_error: reading the model's url raises
\* django.db.Error (the property of tests' test_transaction_rollback).
load_docsnaps(d, model, module_name, disabled, db_error) ==
    LET new_company == model.document_id.service_id.company_id
        company == get_or_create(d.company, "company_id",
                       [name |-> new_company.name],
                       [website |-> new_company.website])
        w_company ==
            IF new_company.website # company.object.website
            THEN <<generate_warning("Company", "website",
                       company.object.website, new_company.website)>>
            ELSE <<>>
        new_service == model.document_id.service_id
        service == get_or_create(d.service, "service_id",
                       [name |-> new_service.name,
                        company_id |-> StoredKey(company, "company_id")],
                       [website |-> new_service.website])
        w_service ==
            IF new_service.website # service.object.website
            THEN <<generate_warning("Service", "website",
                       service.object.website, new_service.website)>>
            ELSE <<>>
        new_document == model.document_id
        document == get_or_create(d.document, "document_id",
                       [name |-> new_document.name,
                        service_id |-> StoredKey(service, "service_id")],
                       <<>>)
        new_language == model.language_id
        language == get_or_create(d.language, "language_id",
                       [code_iso_639_1 |-> new_language.code_iso_639_1],
                       [name |-> new_language.name])
        w_language ==
            IF new_language.name # language.object.name
            THEN <<generate_warning("Language", "name",
                       language.object.name, new_language.name)>>
            ELSE <<>>
        docs_langs == get_or_create(d.documents_languages,
                       "documents_languages_id",
                       [document_id |-> StoredKey(document, "document_id"),
                        language_id |-> StoredKey(language, "language_id")],
                       [url |-> model.url, is_enabled |-> disabled])
        w_docs_langs ==
            IF model.url # docs_langs.object.url
            THEN <<generate_warning("DocumentsLanguages", "url",
                       docs_langs.object.url, model.url)>>
            ELSE IF model.is_enabled # docs_langs.object.is_enabled
            THEN <<generate_warning("DocumentsLanguages", "is_enabled",
                       Str(docs_langs.object.is_enabled),
                       Str(model.is_enabled))>>
            ELSE <<>>
        transform == register_transform(d.transform,
                         StoredKey(document, "document_id"), module_name)
        w_transform ==
            IF ~transform.created
            THEN <<Warning("Transform", "already registered", "module",
                       module_name, new_document.name)>>
            ELSE <<>>
        d1 == [d EXCEPT !.company = company.table]
        d2 == [d1 EXCEPT !.service = service.table]
        d3 == [d2 EXCEPT !.document = document.table]
        d4 == [d3 EXCEPT !.language = language.table]
        d5 == [d4 EXCEPT !.documents_languages = docs_langs.table]
        d6 == [d5 EXCEPT !.transform = transform.table]
    IN  IF company.exception # "" THEN Raised(company.exception, d)
        ELSE IF service.exception # "" THEN Raised(service.exception, d1)
        ELSE IF document.exception # "" THEN Raised(document.exception, d2)
        ELSE IF language.exception # "" THEN Raised(language.exception, d3)
        ELSE IF db_error THEN Raised("django.db.Error", d4)
        ELSE IF docs_langs.exception # ""
        THEN Raised(docs_langs.exception, d4)
        ELSE IF transform.exception # "" THEN Raised(transform.exception, d5)
        ELSE LoaderResult("", d6,
                 w_company \o w_service \o w_language \o w_docs_langs
                     \o w_transform,
                 Found(company, "Company") \cup Found(service, "Service")
                     \cup Found(document, "Document")
                     \cup Found(language, "Language")
                     \cup Found(docs_langs, "DocumentsLanguages")
                     \cup Found(transform, "Transform"))

\* ModelLoader._load of django_docsnaps.
load_django_docsnaps(d, model, disabled, db_error) ==
    LET new_document == model.document_id
        document == get_or_create(d.document, "document_id",
                       [module |-> new_document.module,
                        name |-> new_document.name],
                       <<>>)
        w_document ==
            IF ~document.created
            THEN <<Warning("Document", "already exists", "name",
                       new_document.name, new_document.module)>>
            ELSE <<>>
        new_language == model.language_id
        language == get_or_create(d.language, "language_id",
                       [code_iso_639_1 |-> new_language.code_iso_639_1],
                       [name |-> new_language.name])
        w_language ==
            IF language.created THEN <<>>
            ELSE IF Lower(new_language.name) # Lower(language.object.name)
            THEN <<Warning("Language", "already exists", "name",
                       language.object.code_iso_639_1,
                       new_language.code_iso_639_1)>>
            ELSE <<Warning("Language", "already exists", "code_iso_639_1",
                       new_language.code_iso_639_1, "")>>
        is_enabled == disabled = FALSE
        docs_langs == get_or_create(d.documents_languages,
                       "documents_languages_id",
                       [document_id |-> StoredKey(document, "document_id"),
                        language_id |-> StoredKey(language, "language_id")],
                       [url |-> model.url, is_enabled |-> is_enabled])
        update_url == ~docs_langs.created /\ model.url # docs_langs.object.url
        w_docs_langs ==
            IF update_url
            THEN <<Warning("DocumentsLanguages", "updated", "url",
                       docs_langs.object.url, model.url)>>
            ELSE <<>>
        d1 == [d EXCEPT !.document = document.table]
        d2 == [d1 EXCEPT !.language = language.table]
        d3 == [d2 EXCEPT !.documents_languages =
                  IF update_url
                  THEN save_url(docs_langs.table, docs_langs.object, model.url)
                  ELSE docs_langs.table]
    IN  IF document.exception # "" THEN Raised(document.exception, d)
        ELSE IF language.exception # "" THEN Raised(language.exception, d1)
        ELSE IF db_error THEN Raised("django.db.Error", d2)
        ELSE IF docs_langs.exception # ""
        THEN Raised(docs_langs.exception, d2)
        ELSE LoaderResult("", d3,
                 w_document \o w_language \o w_docs_langs,
                 Found(document, "Document") \cup Found(language, "Language")
                     \cup Found(docs_langs, "DocumentsLanguages"))

\* ModelLoader(model, ...) as _load_models of the package constructs it.
ModelLoader(pkg, d, model, module_name, disabled, db_error) ==
    IF pkg = "docsnaps"
    THEN load_docsnaps(d, model, module_name, disabled, db_error)
    ELSE load_django_docsnaps(d, model, disabled, db_error)

\* What a variable holds before it is bound.
NoModule ==
    [importable |-> FALSE, missing |-> {}, not_callable |-> {},
     get_models |-> NoGetModels]
NoLoader == 0

\* A CommandError: the kind of its message and the names the message holds.
CommandError(kind, names) == [kind |-> kind, names |-> names]
NoCommandError == CommandError("", {})

\* A line of the command's stdout: its text and, for a warning line, the
\* warning and the position in get_models() of the loader it was read from.
Line(text) == [text |-> text, loader |-> NoLoader]
WarningLine(k, warning) ==
    [text |-> "warning: ", loader |-> k, warning |-> warning]

\* flatten_model_graph has not been called.
NoModel == [class |-> "None"]
FlattenIdle ==
    /\ flatten_model = NoModel
    /\ model_queue = <<>>
    /\ flattened = <<>>
    /\ fpc = "idle"

\* The install command has not been invoked.
InstallIdle ==
    /\ db = EmptyDb
    /\ ipc = "idle"
    /\ module = NoModule
    /\ options_disabled = FALSE
    /\ savepoint = EmptyDb
    /\ db_at_begin = EmptyDb
    /\ loaders = <<>>
    /\ stdout = <<>>
    /\ command_error = NoCommandError

\* ---- the run: handle and _execute_enabled_jobs --------------------------

\* The for loop appending every job's task twice.
create_tasks_twice(active_jobs, dict) ==
    [ i \in 1..(2 * Len(active_jobs)) |->
        NewTask(active_jobs[((i - 1) % Len(active_jobs)) + 1],
                DictGet(dict, active_jobs[((i - 1) % Len(active_jobs)) + 1])) ]

\* The for loop creating every task without the snapshot argument, which
\* leaves the parameter at its default None.
create_tasks_without_snapshot(active_jobs, dict) ==
    [ i \in 1..Len(active_jobs) |-> NewTask(active_jobs[i], NoSnapshot) ]

\* The for loop of _execute_enabled_jobs: one task per active job, each given
\* the job's entry of the snapshots dict.
create_tasks(active_jobs, dict) ==
    [ i \in 1..Len(active_jobs) |-> NewTask(active_jobs[i], DictGet(dict, active_jobs[i])) ]

\* asyncio.wait(tasks, return_when=FIRST_EXCEPTION): returns as soon as one
\* task has raised.
wait_returns_first_exception(ts) ==
    \/ \E i \in DOMAIN ts : ts[i].state = "Failed"
    \/ \A i \in DOMAIN ts : Terminal(ts[i])

\* asyncio.wait(tasks, return_when=FIRST_COMPLETED): returns as soon as one
\* task has ended.
wait_returns_first_completed(ts) ==
    \E i \in DOMAIN ts : Terminal(ts[i])

\* asyncio.wait(tasks) with the default return_when=ALL_COMPLETED returns when
\* every task has ended; a task's exception stays in the task.
wait_returns(ts) == \A i \in DOMAIN ts : Terminal(ts[i])

\* await asyncio.gather(*tasks) in the place of asyncio.wait: the exception of
\* the first task that raised is raised in _execute_enabled_jobs and leaves
\* handle through run_until_complete.
execute_enabled_jobs_gathers(ts) ==
    IF \E i \in DOMAIN ts : ts[i].state = "Failed"
    THEN LET i == CHOOSE i \in DOMAIN ts :
                      /\ ts[i].state = "Failed"
                      /\ \A k \in 1..(i - 1) : ts[k].state # "Failed"
         IN  ts[i].exception
    ELSE ""

\* The exception that leaves _execute_enabled_jobs once the tasks have ended
\* ("" for none): done and pending are bound and dropped, no task's result()
\* or exception() is called, so nothing is raised.
execute_enabled_jobs(ts) == ""

\* Where a query of the run command meets a database error: nowhere, in the
\* call that builds the QuerySet (objects.filter, objects.raw), or when the
\* QuerySet is evaluated ("if enabled_jobs", the dict comprehension).
QueryErrors == {"", "call", "evaluation"}

\* The exception a query leaves with: the try block holds the call alone, so
\* its except clause turns an error of the call into CommandError, and an
\* error of the evaluation leaves as the django.db.Error it is.
query_exception(db_error) ==
    CASE db_error = "call" -> "CommandError"
      [] db_error = "evaluation" -> "django.db.Error"
      [] OTHER -> ""

TypeOK ==
    /\ documents_languages \in [JobIds -> [is_enabled : BOOLEAN]]
    /\ pc \in {"idle", "jobs", "snapshots", "waiting", "done", "raised"}
    /\ run_status \in {"", "Active jobs completed successfully.",
                       "No active jobs found."}

Init ==
    /\ documents_languages \in [JobIds -> [is_enabled : BOOLEAN]]
    /\ snapshot_table \in SeededTables(MaxSnapshots)
    /\ pc = "idle"
    /\ enabled_jobs = <<>>
    /\ snapshots = <<>>
    /\ tasks = <<>>
    /\ run_status = ""
    /\ table_at_query = {}
    /\ run_exception = ""
    /\ client_session = "none"
    /\ package = "django_docsnaps"
    /\ InstallIdle
    /\ FlattenIdle

\* handle without the test "if enabled_jobs": the loop is run for any result
\* of _get_active_jobs.
HandleStart_no_branch ==
    /\ pc \in {"idle", "done", "raised"}
    /\ enabled_jobs' = get_active_jobs(documents_languages)
    /\ snapshots' = <<>>
    /\ tasks' = <<>>
    /\ table_at_query' = {}
    /\ pc' = "jobs"
    /\ run_status' = ""
    /\ run_exception' = ""
    /\ client_session' = "none"
    /\ UNCHANGED <<documents_languages, snapshot_table>>

    /\ UNCHANGED <<install_vars, utils_vars>>
\* handle is invoked: _get_active_jobs, then the branch on enabled_jobs.
HandleStart ==
    /\ pc \in {"idle", "done", "raised"}
    /\ snapshots' = <<>>
    /\ tasks' = <<>>
    /\ table_at_query' = {}
    /\ client_session' = "none"
    /\ \E db_error \in QueryErrors :
          /\ run_exception' = query_exception(db_error)
          /\ IF run_exception' # ""
             THEN /\ enabled_jobs' = <<>>
                  /\ pc' = "raised"
                  /\ run_status' = ""
             ELSE /\ enabled_jobs' = get_active_jobs(documents_languages)
                  /\ IF enabled_jobs' # <<>>
                     THEN pc' = "jobs" /\ run_status' = ""
                     ELSE /\ pc' = "done"
                          /\ run_status' = "No active jobs found."
    /\ UNCHANGED <<documents_languages, snapshot_table>>

    /\ UNCHANGED <<install_vars, utils_vars>>
\* snapshots = await self._get_latest_snapshots()
GetLatestSnapshots ==
    /\ pc = "jobs"
    /\ \E db_error \in QueryErrors :
          /\ run_exception' = query_exception(db_error)
          /\ IF run_exception' # ""
             THEN /\ pc' = "raised"
                  /\ UNCHANGED <<snapshots, table_at_query>>
             ELSE /\ snapshots' = get_latest_snapshots(snapshot_table,
                                                       documents_languages)
                  /\ table_at_query' = snapshot_table
                  /\ pc' = "snapshots"
    /\ UNCHANGED <<documents_languages, snapshot_table, enabled_jobs, tasks,
                   run_status, client_session>>

    /\ UNCHANGED <<install_vars, utils_vars>>
\* The task list is built and _execute_enabled_jobs suspends in asyncio.wait.
CreateTasks ==
    /\ pc = "snapshots"
    /\ client_session' = "open"
    /\ tasks' = create_tasks(enabled_jobs, snapshots)
    /\ pc' = "waiting"
    /\ UNCHANGED <<documents_languages, snapshot_table, enabled_jobs,
                   snapshots, run_status, table_at_query, run_exception>>

    /\ UNCHANGED <<install_vars, utils_vars>>
\* The event loop starts task i, which runs to the GET and suspends there.
TaskStart(i) ==
    /\ pc = "waiting"
    /\ i \in DOMAIN tasks
    /\ tasks[i].state = "Pending"
    /\ tasks' = [tasks EXCEPT ![i].state = "Fetching",
                              ![i].steps = @ \o <<"Fetching">>]
    /\ UNCHANGED <<documents_languages, snapshot_table, pc, enabled_jobs,
                   snapshots, run_status, table_at_query, run_exception,
                   client_session>>

    /\ UNCHANGED <<install_vars, utils_vars>>
\* The GET of task i ends (with a text, an error status, a connection failure
\* or the timeout) and the task runs to its end.
TaskResume(i) ==
    /\ pc = "waiting"
    /\ i \in DOMAIN tasks
    /\ tasks[i].state = "Fetching"
    /\ \E result \in Texts \cup FetchErrors, import_ok \in BOOLEAN,
          tr \in TransformResults :
          LET out == execute_single_job(tasks[i], snapshot_table, result,
                                        import_ok, tr)
          IN  /\ tasks' = [tasks EXCEPT ![i] = out.task]
              /\ snapshot_table' = out.table
    /\ UNCHANGED <<documents_languages, pc, enabled_jobs, snapshots,
                   run_status, table_at_query, run_exception, client_session>>

    /\ UNCHANGED <<install_vars, utils_vars>>
\* asyncio.wait returns, the session and the loop are closed and handle sets
\* run_status.
WaitReturns ==
    /\ pc = "waiting"
    /\ wait_returns(tasks)
    /\ IF execute_enabled_jobs(tasks) = ""
       THEN /\ run_status' = "Active jobs completed successfully."
            /\ pc' = "done"
       ELSE /\ pc' = "raised"
            /\ UNCHANGED run_status
    /\ run_exception' = execute_enabled_jobs(tasks)
    /\ client_session' = "closed"
    /\ UNCHANGED <<documents_languages, snapshot_table, enabled_jobs,
                   snapshots, tasks, table_at_query>>

    /\ UNCHANGED <<install_vars, utils_vars>>
Next ==
    \/ HandleStart
    \/ GetLatestSnapshots
    \/ CreateTasks
    \/ \E i \in 1..NumJobs : TaskStart(i)
    \/ \E i \in 1..NumJobs : TaskResume(i)
    \/ WaitReturns

Spec == Init /\ [][Next]_vars

\* The scheduling of one run: the event loop runs every task that is ready,
\* every GET ends (at the latest by its timeout), and the coroutine waiting in
\* asyncio.wait is resumed once that is possible.  When handle is invoked is
\* up to the caller, so HandleStart carries no fairness.
Fairness ==
    /\ WF_vars(GetLatestSnapshots)
    /\ WF_vars(CreateTasks)
    /\ \A i \in 1..NumJobs : WF_vars(TaskStart(i)) /\ WF_vars(TaskResume(i))
    /\ WF_vars(WaitReturns)

\* Whether a run returns does not depend on the stored snapshots, which the
\* tasks only carry along, so the fair runs start from tables of at most one
\* row (a job with a latest snapshot, a job without).
FairInit ==
    /\ Init
    /\ snapshot_table \in SeededTables(1)

FairSpec == FairInit /\ [][Next]_vars /\ Fairness

\* ---- the install command: handle ---------------------------------------
\* The run command's variables while the install command is modelled.
RunIdle ==
    /\ documents_languages = [j \in JobIds |-> [is_enabled |-> FALSE]]
    /\ snapshot_table = {}
    /\ pc = "idle"
    /\ enabled_jobs = <<>>
    /\ snapshots = <<>>
    /\ tasks = <<>>
    /\ run_status = ""
    /\ table_at_query = {}
    /\ run_exception = ""
    /\ client_session = "none"

InitInstall ==
    /\ RunIdle
    /\ package \in Packages
    /\ InstallIdle
    /\ FlattenIdle

\* raise_command_error: 'failed' ends the stage's line and CommandError
\* leaves handle.
raise_command_error(out, stage) == Append(out, Line(stage \o "failed"))

\* handle is invoked with a module name and the --disabled option.
HandleInstall ==
    /\ ipc = "idle"
    /\ \E m \in Modules, opt \in BOOLEAN :
          /\ module' = m
          /\ options_disabled' = opt
    /\ ipc' = "import_module"
    /\ UNCHANGED <<package, db, savepoint, db_at_begin, loaders, stdout,
                   command_error>>
    /\ UNCHANGED <<run_vars, utils_vars>>

\* The command's process ends, by return or by CommandError, and with it
\* everything but storage.
CommandExit ==
    /\ ipc \in {"done", "failed"}
    /\ ipc' = "idle"
    /\ module' = NoModule
    /\ options_disabled' = FALSE
    /\ savepoint' = db
    /\ db_at_begin' = db
    /\ loaders' = <<>>
    /\ stdout' = <<>>
    /\ command_error' = NoCommandError
    /\ UNCHANGED <<package, db>>
    /\ UNCHANGED <<run_vars, utils_vars>>

\* _import_module.
ImportModule ==
    /\ ipc = "import_module"
    /\ IF module.importable
       THEN /\ stdout' = Append(stdout,
                             Line("Attempting to load module: success"))
            /\ ipc' = "validate_module_interface"
            /\ UNCHANGED command_error
       ELSE /\ stdout' = raise_command_error(stdout,
                             "Attempting to load module: ")
            /\ command_error' = CommandError("ImportError", {})
            /\ ipc' = "failed"
    /\ UNCHANGED <<package, db, module, options_disabled, savepoint,
                   db_at_begin, loaders>>
    /\ UNCHANGED <<run_vars, utils_vars>>

\* _validate_module_interface with the raise after the loop: the message
\* of the last offending callable is the one raised.
validate_module_interface_raises_last(m) ==
    LET error_message(a) ==
            IF a \in m.missing THEN CommandError("No attribute", {a})
            ELSE IF a \in m.not_callable
            THEN CommandError("is not callable", {a})
            ELSE NoCommandError
    IN  IF error_message(NecessaryCallables[2]) # NoCommandError
        THEN error_message(NecessaryCallables[2])
        ELSE error_message(NecessaryCallables[1])

\* The loop of _validate_module_interface over necessary_callables: the
\* CommandError it raises, NoCommandError if it raises none.
validate_module_interface(m) ==
    LET error_message(a) ==
            IF a \in m.missing THEN CommandError("No attribute", {a})
            ELSE IF a \in m.not_callable
            THEN CommandError("is not callable", {a})
            ELSE NoCommandError
    IN  IF error_message(NecessaryCallables[1]) # NoCommandError
        THEN error_message(NecessaryCallables[1])
        ELSE error_message(NecessaryCallables[2])

\* _validate_module_interface.
ValidateModuleInterface ==
    /\ ipc = "validate_module_interface"
    /\ IF validate_module_interface(module) # NoCommandError
       THEN /\ stdout' = raise_command_error(stdout,
                             "Validating module interface: ")
            /\ command_error' = validate_module_interface(module)
            /\ ipc' = "failed"
       ELSE /\ stdout' = Append(stdout,
                             Line("Validating module interface: success"))
            /\ UNCHANGED command_error
            /\ ipc' = "validate_module_models"
    /\ UNCHANGED <<package, db, module, options_disabled, savepoint,
                   db_at_begin, loaders>>
    /\ UNCHANGED <<run_vars, utils_vars>>

\* The checks of _validate_module_models on the value of get_models().
RequiredClasses(pkg) ==
    IF pkg = "docsnaps"
    THEN {"Company", "Service", "Document", "Language", "DocumentsLanguages"}
    ELSE {"Document", "Language", "DocumentsLanguages"}

module_models_valid(pkg, module_models) ==
    /\ module_models.truthy
    /\ module_models.iterable
    /\ \A i \in DOMAIN module_models.items :
          LET model == module_models.items[i]
          IN  /\ model.class = "DocumentsLanguages"
              /\ RequiredClasses(pkg) \ model.graph_classes = {}

\* The CommandError of the loop of _validate_module_models for one element.
model_error(pkg, model) ==
    IF model.class = "DocumentsLanguages"
    THEN IF RequiredClasses(pkg) \ model.graph_classes # {}
         THEN CommandError("missing models",
                           RequiredClasses(pkg) \ model.graph_classes)
         ELSE NoCommandError
    ELSE CommandError("incorrect type", {model.class})

\* The CommandError of the first element of the list that has one.
RECURSIVE first_model_error(_, _)
first_model_error(pkg, items) ==
    IF items = <<>> THEN NoCommandError
    ELSE IF model_error(pkg, Head(items)) # NoCommandError
    THEN model_error(pkg, Head(items))
    ELSE first_model_error(pkg, Tail(items))

\* _validate_module_models whose loop ends after its first iteration.
validate_module_models_checks_first(pkg, module_models) ==
    IF ~module_models.truthy THEN CommandError("empty iterable", {})
    ELSE IF ~module_models.iterable THEN CommandError("TypeError", {})
    ELSE first_model_error(pkg, SubSeq(module_models.items, 1, 1))

\* _validate_module_models: the CommandError it raises, NoCommandError if it
\* raises none.
validate_module_models(pkg, module_models) ==
    IF ~module_models.truthy THEN CommandError("empty iterable", {})
    ELSE IF ~module_models.iterable THEN CommandError("TypeError", {})
    ELSE first_model_error(pkg, module_models.items)

\* _validate_module_models that accepts whatever get_models() returns.
ValidateModuleModels_accepts_all ==
    /\ ipc = "validate_module_models"
    /\ stdout' = Append(stdout, Line("Validating module models: success"))
    /\ ipc' = "load_models"
    /\ UNCHANGED <<package, db, module, options_disabled, savepoint,
                   db_at_begin, loaders, command_error>>
    /\ UNCHANGED <<run_vars, utils_vars>>

\* _validate_module_models.
ValidateModuleModels ==
    /\ ipc = "validate_module_models"
    /\ LET error == validate_module_models(package, module.get_models)
       IN  IF error = NoCommandError
           THEN /\ stdout' = Append(stdout,
                                 Line("Validating module models: success"))
                /\ UNCHANGED command_error
                /\ ipc' = "load_models"
           ELSE /\ stdout' = raise_command_error(stdout,
                                 "Validating module models: ")
                /\ command_error' = error
                /\ ipc' = "failed"
    /\ UNCHANGED <<package, db, module, options_disabled, savepoint,
                   db_at_begin, loaders>>
    /\ UNCHANGED <<run_vars, utils_vars>>

\* _load_models enters "with django.db.transaction.atomic()".
BeginLoad ==
    /\ ipc = "load_models"
    /\ savepoint' = db
    /\ ipc' = "loading"
    /\ UNCHANGED <<package, db, module, options_disabled, db_at_begin, loaders,
                   stdout, command_error>>
    /\ UNCHANGED <<run_vars, utils_vars>>

\* One iteration of the loop of _load_models: ModelLoader(model, ...).  An
\* exception leaves the loop with the rows inserted so far still in place.
\* A value of get_models() that cannot be iterated raises TypeError.
LoadModel ==
    /\ ipc = "loading"
    /\ IF ~module.get_models.iterable
       THEN /\ ipc' = "uncaught"
            /\ UNCHANGED <<db, loaders>>
       ELSE /\ Len(loaders) < Len(module.get_models.items)
            /\ \E db_error \in BOOLEAN :
                  LET model == module.get_models.items[Len(loaders) + 1]
                      model_loader ==
                          ModelLoader(package, db, model, ModuleName,
                                      options_disabled, db_error)
                  IN  /\ db' = model_loader.db
                      /\ loaders' = Append(loaders, model_loader)
                      /\ ipc' = IF model_loader.exception = ""
                                THEN "loading" ELSE "exception"
    /\ UNCHANGED <<package, module, options_disabled, savepoint,
                   db_at_begin, stdout, command_error>>
    /\ UNCHANGED <<run_vars, utils_vars>>

\* The except clauses of _load_models leaving command_error_message unset:
\* the transaction is rolled back and the method goes on to its last lines.
Rollback_reports_success ==
    /\ ipc \in {"exception", "uncaught"}
    /\ db' = savepoint
    /\ stdout' = Append(stdout,
                        Line("Attempting to load module data: success"))
    /\ ipc' = "done"
    /\ UNCHANGED <<package, module, options_disabled, savepoint,
                   db_at_begin, loaders, command_error>>
    /\ UNCHANGED <<run_vars, utils_vars>>

\* The atomic block is left by an exception and the rows stay.
Rollback_keeps_rows ==
    /\ ipc \in {"exception", "uncaught"}
    /\ db' = db
    /\ stdout' = raise_command_error(stdout,
                     "Attempting to load module data: ")
    /\ command_error' = CommandError("A database error occurred", {})
    /\ ipc' = "failed"
    /\ UNCHANGED <<package, module, options_disabled, savepoint,
                   db_at_begin, loaders>>
    /\ UNCHANGED <<run_vars, utils_vars>>

\* The atomic block is left by an exception: the transaction is rolled back;
\* MultipleObjectsReturned and django.db.Error become a CommandError, any
\* other exception leaves handle as it is.
Rollback ==
    /\ ipc \in {"exception", "uncaught"}
    /\ db' = savepoint
    /\ stdout' = IF ipc = "exception"
                 THEN raise_command_error(stdout,
                          "Attempting to load module data: ")
                 ELSE stdout
    /\ command_error' =
          IF ipc = "uncaught" THEN NoCommandError
          ELSE IF loaders[Len(loaders)].exception = "MultipleObjectsReturned"
          THEN CommandError("Multiple identical records returned", {})
          ELSE CommandError("A database error occurred", {})
    /\ ipc' = "failed"
    /\ UNCHANGED <<package, module, options_disabled, savepoint,
                   db_at_begin, loaders>>
    /\ UNCHANGED <<run_vars, utils_vars>>

\* The lines _load_models writes for the warnings of one loader.
RECURSIVE WarningLines(_, _)
WarningLines(k, warnings) ==
    IF warnings = <<>> THEN <<>>
    ELSE <<WarningLine(k, Head(warnings))>>
             \o WarningLines(k, Tail(warnings))

\* The loop of _load_models ended: the transaction is committed, 'success'
\* is written, then the warnings of model_loader, the loader of the last
\* iteration.  After an empty loop model_loader is unbound (NameError).
Commit ==
    /\ ipc = "loading"
    /\ module.get_models.iterable
    /\ Len(loaders) = Len(module.get_models.items)
    /\ IF loaders = <<>>
       THEN /\ stdout' = Append(stdout,
                             Line("Attempting to load module data: success"))
            /\ ipc' = "failed"
       ELSE /\ stdout' =
                 Append(stdout,
                        Line("Attempting to load module data: success"))
                 \o WarningLines(Len(loaders), loaders[Len(loaders)].warnings)
            /\ ipc' = "done"
    /\ UNCHANGED <<package, db, module, options_disabled, savepoint,
                   db_at_begin, loaders, command_error>>
    /\ UNCHANGED <<run_vars, utils_vars>>

NextInstall ==
    \/ HandleInstall
    \/ ImportModule
    \/ ValidateModuleInterface
    \/ ValidateModuleModels
    \/ BeginLoad
    \/ LoadModel
    \/ Rollback
    \/ Commit
    \/ CommandExit

SpecInstall == InitInstall /\ [][NextInstall]_vars

\* ---- flatten_model_graph ------------------------------------------------
\* Model instances as the tests build them: an instance has its class, a
\* name, and the foreign keys that are set.  A foreign key that is not set
\* (or None on a field without null=True) raises RelatedObjectDoesNotExist,
\* an AttributeError, on access, so hasattr is false for it.
CompanyInstances == {[class |-> "Company", name |-> "Test, Inc."]}
ServiceInstances ==
    {[class |-> "Service", name |-> "Test"]}
    \cup {[class |-> "Service", name |-> "Test", company_id |-> c] :
             c \in CompanyInstances}
DocumentInstances ==
    {[class |-> "Document", name |-> n] : n \in DocumentNames}
    \cup {[class |-> "Document", name |-> n, service_id |-> sv] :
             n \in DocumentNames, sv \in ServiceInstances}
LanguageInstances ==
    {[class |-> "Language", name |-> n] : n \in LanguageNames}
DocumentsLanguagesInstances ==
    {[class |-> "DocumentsLanguages", name |-> BaseGraph.url]}
    \cup {[class |-> "DocumentsLanguages", name |-> BaseGraph.url,
           document_id |-> d] : d \in DocumentInstances}
    \cup {[class |-> "DocumentsLanguages", name |-> BaseGraph.url,
           language_id |-> l] : l \in LanguageInstances}
    \cup {[class |-> "DocumentsLanguages", name |-> BaseGraph.url,
           document_id |-> d, language_id |-> l] :
             d \in DocumentInstances, l \in LanguageInstances}
ModelInstances ==
    CompanyInstances \cup ServiceInstances \cup DocumentInstances
        \cup LanguageInstances \cup DocumentsLanguagesInstances

\* The ForeignKey fields of a model in the order of _meta.get_fields().
ForeignKeys(class) ==
    CASE class = "DocumentsLanguages" -> <<"document_id", "language_id">>
      [] class = "Document" -> <<"service_id">>
      [] class = "Service" -> <<"company_id">>
      [] OTHER -> <<>>

\* The instances the inner for loop appends to the queue for current_model.
RECURSIVE related_models(_, _)
related_models(current_model, fields) ==
    IF fields = <<>> THEN <<>>
    ELSE (IF Head(fields) \in DOMAIN current_model
          THEN <<current_model[Head(fields)]>> ELSE <<>>)
             \o related_models(current_model, Tail(fields))

\* deque.pop(): the element of the right end.
deque_pop(queue) ==
    [item |-> queue[Len(queue)], queue |-> SubSeq(queue, 1, Len(queue) - 1)]

\* deque.popleft()
deque_popleft(queue) == [item |-> Head(queue), queue |-> Tail(queue)]

\* flatten_model_graph(model) is called and iterated: the generator's body
\* starts with model_queue = deque([model]).
FlattenCall ==
    /\ fpc \in {"idle", "exhausted"}
    /\ \E model \in ModelInstances :
          /\ flatten_model' = model
          /\ model_queue' = <<model>>
    /\ flattened' = <<>>
    /\ fpc' = "running"
    /\ UNCHANGED <<run_vars, install_vars>>

\* One iteration of the while loop, up to the yield.
FlattenNext ==
    /\ fpc = "running"
    /\ model_queue # <<>>
    /\ LET popped == deque_popleft(model_queue)
           current_model == popped.item
       IN  /\ model_queue' =
                 popped.queue
                     \o related_models(current_model,
                                       ForeignKeys(current_model.class))
           /\ flattened' = Append(flattened, current_model)
    /\ UNCHANGED <<flatten_model, fpc>>
    /\ UNCHANGED <<run_vars, install_vars>>

\* The queue is empty: the generator returns (StopIteration).
FlattenStop ==
    /\ fpc = "running"
    /\ model_queue = <<>>
    /\ fpc' = "exhausted"
    /\ UNCHANGED <<flatten_model, model_queue, flattened>>
    /\ UNCHANGED <<run_vars, install_vars>>

InitUtils ==
    /\ RunIdle
    /\ package = "docsnaps"
    /\ InstallIdle
    /\ FlattenIdle

NextUtils == FlattenCall \/ FlattenNext \/ FlattenStop

SpecUtils == InitUtils /\ [][NextUtils]_vars

\* Whoever iterates the generator goes on to its end.
FairSpecUtils ==
    SpecUtils /\ WF_vars(FlattenNext) /\ WF_vars(FlattenStop)

\* ---- properties ---------------------------------------------------------

RowsOf(table, j) == { s \in table : s.documents_languages_id = j }

\* The rows the current run has inserted for job j.
Inserted(j) == RowsOf(snapshot_table, j) \ RowsOf(table_at_query, j)

\* The latest-snapshot query of the current run has been made.
QueryDone == pc \in {"snapshots", "waiting"} \/ (pc = "done" /\ enabled_jobs # <<>>)

\* The run has ended after launching tasks.
RunEnded == pc = "done" /\ tasks # <<>>

TasksOf(j) == { i \in DOMAIN tasks : tasks[i].job = j }

\* The task got a text back from the plug-in's transform.
Transformed(t) == Terminal(t) /\ t.fetch_result = "ok" /\ t.text # NoText

\* C1: a job that raises at any step gets no Snapshot row, and when the run
\* ends every other job has reached its own terminal outcome, the rows
\* written for it being exactly those of that outcome (one row holding its
\* text if it persisted, none otherwise).
FailureIsolation ==
    \A a \in DOMAIN tasks :
        tasks[a].state = "Failed" =>
            /\ Inserted(tasks[a].job) = {}
            /\ RunEnded =>
                 \A b \in DOMAIN tasks \ {a} :
                    /\ Terminal(tasks[b])
                    /\ tasks[b].state = "Persisted" =>
                          /\ Cardinality(Inserted(tasks[b].job)) = 1
                          /\ \A s \in Inserted(tasks[b].job) : s.text = tasks[b].text
                    /\ tasks[b].state # "Persisted" => Inserted(tasks[b].job) = {}

\* A run ended in which one job failed in its fetch and a sibling finished
\* with the outcome "no change".
FailureIsolationWitness ==
    /\ RunEnded
    /\ \E a, b \in DOMAIN tasks :
          /\ a # b
          /\ tasks[a].state = "Failed"
          /\ tasks[a].fetch_result \in FetchErrors
          /\ tasks[b].state = "Unchanged"

\* C2: _execute_enabled_jobs returns only when every launched task has ended,
\* and under fair scheduling a run that has launched its tasks does return.
JoinBarrier ==
    /\ [](pc = "done" => \A i \in DOMAIN tasks : Terminal(tasks[i]))
    /\ \A i \in 1..NumJobs :
          (pc = "waiting" /\ i \in DOMAIN tasks)
              ~> (i \in DOMAIN tasks /\ Terminal(tasks[i]))
    /\ (pc = "waiting") ~> (pc = "done")

\* A run of several tasks returned although one of them had raised.
JoinBarrierWitness ==
    /\ RunEnded
    /\ Len(tasks) >= 2
    /\ \E i \in DOMAIN tasks : tasks[i].state = "Failed"
    /\ \A i \in DOMAIN tasks : Terminal(tasks[i])

\* C3: a job whose transformed text equals the text of its latest stored
\* Snapshot ends with "no change" and no inserted row.
NoWriteWhenUnchanged ==
    \A i \in DOMAIN tasks :
        ( /\ Transformed(tasks[i])
          /\ tasks[i].snapshot # NoSnapshot
          /\ tasks[i].text = tasks[i].snapshot.text )
        => /\ tasks[i].state = "Unchanged"
           /\ Inserted(tasks[i].job) = {}

\* C4: a job with no stored Snapshot whose fetch succeeded gets exactly one
\* new Snapshot row, holding the transformed text.
FirstRunPersists ==
    \A i \in DOMAIN tasks :
        (Transformed(tasks[i]) /\ tasks[i].snapshot = NoSnapshot)
        => /\ Cardinality(Inserted(tasks[i].job)) = 1
           /\ \A s \in Inserted(tasks[i].job) : s.text = tasks[i].text

\* C5: every enabled job is launched as exactly one task, and the run inserts
\* at most one Snapshot row for a job, one only if the job's document was
\* reported changed.
OneSnapshotPerJob ==
    pc \in {"waiting", "done"} /\ enabled_jobs # <<>> =>
        \A j \in JobIds :
            /\ Cardinality(TasksOf(j)) = (IF documents_languages[j].is_enabled THEN 1 ELSE 0)
            /\ Cardinality(Inserted(j)) <= 1
            /\ Cardinality(Inserted(j)) = 1 =>
                  \E i \in TasksOf(j) : tasks[i].doc_is_changed

\* A run of several jobs ended, one of them having gone on to the save.
OneSnapshotPerJobWitness ==
    /\ RunEnded
    /\ Len(tasks) >= 2
    /\ \E i \in DOMAIN tasks :
          /\ tasks[i].doc_is_changed
          /\ \E k \in DOMAIN tasks[i].steps : tasks[i].steps[k] = "Persisting"

\* C6: a job whose GET ends with a bad status, a connection failure or a
\* timeout is Failed, never reaches the transform or the save, and gets no
\* Snapshot row.
FailedFetchPersistsNothing ==
    \A i \in DOMAIN tasks :
        tasks[i].fetch_result \in FetchErrors =>
            /\ tasks[i].state = "Failed"
            /\ \A k \in DOMAIN tasks[i].steps :
                  tasks[i].steps[k] \notin {"Transforming", "Persisting", "Persisted"}
            /\ Inserted(tasks[i].job) = {}

\* Each kind of fetch failure has happened to a task of one run.
FailedFetchWitness ==
    /\ RunEnded
    /\ \E i \in DOMAIN tasks :
          tasks[i].fetch_result = "timeout" /\ tasks[i].state = "Failed"
    /\ \E i \in DOMAIN tasks :
          tasks[i].fetch_result \in {"network-error", "http-status-error"}

\* C7: a run appends a Snapshot for a job exactly when the job's text differs
\* from the text of its most recently stored Snapshot (or none is stored),
\* and after the run the latest-snapshot query returns the text last
\* persisted.
SuccessiveRuns ==
    RunEnded =>
        \A i \in DOMAIN tasks :
            Transformed(tasks[i]) =>
                LET j == tasks[i].job
                    latest == get_latest_snapshots(snapshot_table, documents_languages)
                IN  /\ (Inserted(j) # {}) <=>
                          (tasks[i].snapshot = NoSnapshot
                             \/ tasks[i].snapshot.text # tasks[i].text)
                    /\ Inserted(j) # {} =>
                          (j \in DOMAIN latest /\ latest[j].text = tasks[i].text)

\* C8: for every enabled DocumentsLanguages row with a Snapshot, the entry of
\* the latest-snapshot map is a Snapshot of that row whose datetime is the
\* maximum among the row's Snapshots.
LatestSnapshotCorrect ==
    QueryDone =>
        \A j \in JobIds :
            (documents_languages[j].is_enabled /\ RowsOf(table_at_query, j) # {})
            => /\ j \in DOMAIN snapshots
               /\ snapshots[j] \in RowsOf(table_at_query, j)
               /\ \A s \in RowsOf(table_at_query, j) :
                     s.datetime <= snapshots[j].datetime

\* The query ran over enabled jobs with different numbers of Snapshots, one
\* of them with several.
LatestSnapshotWitness ==
    /\ QueryDone
    /\ \E j, k \in JobIds :
          /\ documents_languages[j].is_enabled
          /\ documents_languages[k].is_enabled
          /\ Cardinality(RowsOf(table_at_query, j)) >= 2
          /\ Cardinality(RowsOf(table_at_query, k)) < Cardinality(RowsOf(table_at_query, j))
          /\ j \in DOMAIN snapshots

\* C9: the keys of the latest-snapshot map are exactly the enabled
\* DocumentsLanguages rows that have a Snapshot, each with one selected row.
SnapshotMapKeys ==
    QueryDone =>
        /\ DOMAIN snapshots =
              { j \in JobIds : documents_languages[j].is_enabled
                                 /\ RowsOf(table_at_query, j) # {} }
        /\ \A j \in DOMAIN snapshots :
              Cardinality(RowsOf(LatestSnapshotRows(table_at_query, documents_languages), j)) = 1

\* The query ran with a disabled job that has a Snapshot and an enabled job
\* that has none.
SnapshotMapKeysWitness ==
    /\ QueryDone
    /\ \E j, k \in JobIds :
          /\ ~ documents_languages[j].is_enabled
          /\ RowsOf(table_at_query, j) # {}
          /\ documents_languages[k].is_enabled
          /\ RowsOf(table_at_query, k) = {}
          /\ snapshots = <<>>

\* C10: when a run ends in which some job failed, the run is not reported as
\* fully successful.
FailuresReported ==
    (RunEnded /\ \E i \in DOMAIN tasks : tasks[i].state = "Failed")
        => run_status # "Active jobs completed successfully."

\* The stored DocumentsLanguages rows with is_enabled true.
EnabledRows == { j \in JobIds : documents_languages[j].is_enabled }

\* C11: the jobs _get_active_jobs returns, and the jobs of the tasks a run
\* launches, are exactly the stored rows with is_enabled true; a disabled row
\* has no task and the run inserts no Snapshot for it.
OnlyEnabledJobs ==
    /\ pc \in {"jobs", "snapshots", "waiting"} =>
          { enabled_jobs[i] : i \in DOMAIN enabled_jobs } = EnabledRows
    /\ pc = "waiting" \/ RunEnded =>
          { tasks[i].job : i \in DOMAIN tasks } = EnabledRows
    /\ \A j \in JobIds \ EnabledRows :
          /\ TasksOf(j) = {}
          /\ QueryDone => Inserted(j) = {}

\* A run ended that fetched a document for an enabled job while a disabled
\* row with stored Snapshots was left alone.
OnlyEnabledJobsWitness ==
    /\ RunEnded
    /\ \E i \in DOMAIN tasks : tasks[i].fetch_result = "ok"
    /\ \E j \in JobIds \ EnabledRows : RowsOf(snapshot_table, j) # {}

\* C12: when no DocumentsLanguages row is enabled, the run command never gets
\* to the latest-snapshot query or to a task, writes no Snapshot, and ends
\* reporting that no active jobs were found (unless the enabled-jobs query
\* itself met a database error, the only way it raises).
EmptyJobSet ==
    /\ [](EnabledRows = {} =>
            /\ pc \in {"idle", "done", "raised"}
            /\ snapshots = <<>>
            /\ tasks = <<>>
            /\ client_session = "none"
            /\ pc = "raised" => run_exception # ""
            /\ pc = "done" =>
                  /\ run_status = "No active jobs found."
                  /\ run_exception = "")
    /\ [][EnabledRows = {} => snapshot_table' = snapshot_table]_vars

\* The command ended with "No active jobs found." over a storage that holds
\* Snapshots of disabled rows.
EmptyJobSetWitness ==
    /\ EnabledRows = {}
    /\ pc = "done"
    /\ run_status = "No active jobs found."
    /\ snapshot_table # {}

\* ---- properties of the install command -----------------------------------
\* The models of get_models() and the storage the k-th loader started from.
Items == module.get_models.items
Before(k) == IF k = 1 THEN savepoint ELSE loaders[k - 1].db
Warnings(k) == {loaders[k].warnings[i] : i \in DOMAIN loaders[k].warnings}
Loaded(k) == k \in DOMAIN loaders /\ loaders[k].exception = ""

\* The stored rows with the natural key of an entity of a model graph.
ExistingCompany(d, model) ==
    Filter(d.company, [name |-> model.document_id.service_id.company_id.name])
ExistingService(d, model) ==
    UNION {Filter(d.service, [name |-> model.document_id.service_id.name,
                              company_id |-> c.company_id]) :
             c \in ExistingCompany(d, model)}
ExistingDocument(d, model, pkg) ==
    IF pkg = "docsnaps"
    THEN UNION {Filter(d.document, [name |-> model.document_id.name,
                                    service_id |-> s.service_id]) :
                  s \in ExistingService(d, model)}
    ELSE Filter(d.document, [module |-> model.document_id.module,
                             name |-> model.document_id.name])
ExistingLanguage(d, model) ==
    Filter(d.language,
           [code_iso_639_1 |-> model.language_id.code_iso_639_1])
ExistingDocsLangs(d, model, pkg) ==
    UNION {Filter(d.documents_languages,
                  [document_id |-> doc.document_id,
                   language_id |-> l.language_id]) :
             doc \in ExistingDocument(d, model, pkg),
             l \in ExistingLanguage(d, model)}

\* C13: loading a graph again right after it was loaded, in the same install
\* or in a later one and with either value of the disabled option, raises
\* nothing and leaves every table exactly as the first load left it.
LoaderIdempotent ==
    /\ ipc = "idle" =>
          \A g \in Graphs, first \in BOOLEAN, again \in BOOLEAN :
              LET once == ModelLoader(package, db, g, ModuleName, first,
                                      FALSE)
                  twice == ModelLoader(package, once.db, g, ModuleName,
                                       again, FALSE)
              IN  /\ once.exception = ""
                  /\ twice.exception = ""
                  /\ twice.db = once.db
    /\ \A k \in DOMAIN loaders :
          (k > 1 /\ Loaded(k) /\ Items[k] = Items[k - 1])
          => loaders[k].db = loaders[k - 1].db

\* An install whose get_models() holds the same new graph twice has ended:
\* the first load inserted every row, the second found them all.
LoaderIdempotentWitness ==
    /\ ipc = "done"
    /\ Len(loaders) = 2
    /\ Items[1] = Items[2]
    /\ loaders[1].found_existing = {}
    /\ "DocumentsLanguages" \in loaders[2].found_existing
    /\ db = loaders[1].db
    /\ db # db_at_begin

\* C14: after a successful load, stdout holds at least one 'warning: ' line
\* of every loader that found a record of its graph already stored, whatever
\* the position of the graph in get_models().
WarningsForEveryExistingRecord ==
    ipc = "done" =>
        \A k \in DOMAIN loaders :
            loaders[k].found_existing # {} =>
                \E i \in DOMAIN stdout :
                    stdout[i].text = "warning: " /\ stdout[i].loader = k

\* The parts of C15: a stored row with the natural key of the incoming
\* record and another value of the field is still stored after the load, and
\* the loader has the warning with the field, the stored and the discarded
\* value.
KeptWithWarning(k, entity, table, existing, field, stored, incoming) ==
    \A row \in existing :
        stored[row] # incoming =>
            /\ row \in loaders[k].db[table]
            /\ generate_warning(entity, field, stored[row], incoming)
                   \in Warnings(k)

\* C15: the docsnaps loader leaves a stored Company, Service or Language whose
\* website or name differs from the incoming one as it is and records a
\* warning with the field and both values; likewise for the is_enabled of a
\* stored DocumentsLanguages.
NoOverwriteOfDivergentRecord ==
    \A k \in DOMAIN loaders :
        (package = "docsnaps" /\ Loaded(k)) =>
            LET model == Items[k]
                service == model.document_id.service_id
            IN  /\ KeptWithWarning(k, "Company", "company",
                       ExistingCompany(Before(k), model), "website",
                       [r \in Before(k).company |-> r.website],
                       service.company_id.website)
                /\ KeptWithWarning(k, "Service", "service",
                       ExistingService(Before(k), model), "website",
                       [r \in Before(k).service |-> r.website],
                       service.website)
                /\ KeptWithWarning(k, "Language", "language",
                       ExistingLanguage(Before(k), model), "name",
                       [r \in Before(k).language |-> r.name],
                       model.language_id.name)
                /\ KeptWithWarning(k, "DocumentsLanguages",
                       "documents_languages",
                       ExistingDocsLangs(Before(k), model, package),
                       "is_enabled",
                       [r \in Before(k).documents_languages |->
                           Str(r.is_enabled)],
                       Str(model.is_enabled))

\* The warnings of loader k about the url of a DocumentsLanguages.
UrlWarnings(k) ==
    {i \in DOMAIN loaders[k].warnings : loaders[k].warnings[i].field = "url"}

\* C16: a load that finds the (document, language) stored with another url
\* stores the new url in that row, adds no row and records exactly one
\* warning, with the old and the new url; a load that finds it with the same
\* url leaves the row as it is and records no url warning.
UrlRefresh ==
    \A k \in DOMAIN loaders :
        Loaded(k) =>
            \A row \in ExistingDocsLangs(Before(k), Items[k], package) :
                IF row.url # Items[k].url
                THEN /\ [row EXCEPT !.url = Items[k].url]
                            \in loaders[k].db.documents_languages
                     /\ Cardinality(loaders[k].db.documents_languages)
                            = Cardinality(Before(k).documents_languages)
                     /\ Cardinality(UrlWarnings(k)) = 1
                     /\ \A i \in UrlWarnings(k) :
                            /\ loaders[k].warnings[i].kind = "updated"
                            /\ loaders[k].warnings[i].existing = row.url
                            /\ loaders[k].warnings[i].incoming = Items[k].url
                ELSE /\ row \in loaders[k].db.documents_languages
                     /\ UrlWarnings(k) = {}

\* C17: when a loader raised a storage error, the tables after _load_models
\* has raised CommandError are those of the moment the install began.
AllOrNothingInstall ==
    (ipc = "failed" /\ \E k \in DOMAIN loaders : loaders[k].exception # "")
    => db = db_at_begin

\* The second graph of an install raised django.db.Error after the first had
\* inserted rows, and the command has failed.
AllOrNothingInstallWitness ==
    /\ ipc = "failed"
    /\ Len(loaders) = 2
    /\ loaders[1].exception = ""
    /\ loaders[1].db # db_at_begin
    /\ loaders[2].exception = "django.db.Error"
    /\ db = db_at_begin

\* No table holds a row with the natural key of an entity of the graph.
NothingStored(d, model, pkg) ==
    /\ pkg = "docsnaps" =>
          ExistingCompany(d, model) = {} /\ ExistingService(d, model) = {}
    /\ ExistingDocument(d, model, pkg) = {}
    /\ ExistingLanguage(d, model) = {}
    /\ ExistingDocsLangs(d, model, pkg) = {}

\* C18: a load, without the disabled option, of a graph none of whose
\* entities is stored inserts every entity and records no warning.
CleanInstallNoWarnings ==
    \A k \in DOMAIN loaders :
        ( /\ Loaded(k)
          /\ ~options_disabled
          /\ NothingStored(Before(k), Items[k], package) )
        => /\ loaders[k].found_existing = {}
           /\ loaders[k].warnings = <<>>

\* The documents_languages table as the run command reads it.
JobsTable(d) ==
    [j \in {r.documents_languages_id : r \in d.documents_languages} |->
        CHOOSE r \in d.documents_languages : r.documents_languages_id = j]

\* C19: the DocumentsLanguages row a load inserts has is_enabled false when
\* the install has the disabled option and true when it has not, so that
\* _get_active_jobs of a following run selects it exactly in the latter case.
DisabledFlag ==
    \A k \in DOMAIN loaders :
        (Loaded(k) /\ "DocumentsLanguages" \notin loaders[k].found_existing)
        => \A row \in ExistingDocsLangs(loaders[k].db, Items[k], package) :
              LET active_jobs == get_active_jobs(JobsTable(loaders[k].db))
              IN  /\ row.is_enabled = ~options_disabled
                  /\ (\E i \in DOMAIN active_jobs :
                         active_jobs[i] = row.documents_languages_id)
                     <=> ~options_disabled

\* The module passes _import_module and both validations.
ModuleValid ==
    /\ module.importable
    /\ module.missing = {}
    /\ module.not_callable = {}
    /\ module_models_valid(package, module.get_models)

\* The stages of handle in the order of the code.
StageRank(position) ==
    CASE position = "idle" -> 0
      [] position = "import_module" -> 1
      [] position = "validate_module_interface" -> 2
      [] position = "validate_module_models" -> 3
      [] position = "load_models" -> 4
      [] position \in {"loading", "exception", "uncaught"} -> 5
      [] position \in {"done", "failed"} -> 6

\* C20: handle goes through import, interface validation, model validation
\* and load in this order; a loader is constructed only for a module that
\* passed all three, and when one of them fails no loader was constructed
\* and the tables are those of the moment the command began.
ValidationGatesLoading ==
    /\ [](loaders # <<>> => ModuleValid)
    /\ []((ipc = "failed" /\ ~ModuleValid) =>
             loaders = <<>> /\ db = db_at_begin)
    /\ [][ /\ StageRank(ipc') \in
                 {0, StageRank(ipc), StageRank(ipc) + 1, 6}
           /\ StageRank(ipc') = 5 => StageRank(ipc) \in {4, 5} ]_vars

\* An install over stored rows failed in the model validation and nothing
\* was loaded.
ValidationGatesLoadingWitness ==
    /\ ipc = "failed"
    /\ module.importable
    /\ module.missing = {} /\ module.not_callable = {}
    /\ ~module_models_valid(package, module.get_models)
    /\ module.get_models.items # <<>>
    /\ db_at_begin # EmptyDb
    /\ loaders = <<>>
    /\ db = db_at_begin

\* ---- C21
\* The position of handle is past _validate_module_models.
PastModelValidation ==
    /\ module.importable
    /\ module.missing = {} /\ module.not_callable = {}
    /\ StageRank(ipc) > 3

ModelsAccepted ==
    \E k \in DOMAIN stdout :
        stdout[k] = Line("Validating module models: success")

ModelsRejected ==
    \E k \in DOMAIN stdout :
        stdout[k] = Line("Validating module models: failed")

\* The first element of get_models() that is a DocumentsLanguages with an
\* incomplete graph, every element before it being a complete one.
FirstIncomplete(i) ==
    LET items == module.get_models.items
    IN  /\ i \in DOMAIN items
        /\ items[i].class = "DocumentsLanguages"
        /\ RequiredClasses(package) \ items[i].graph_classes # {}
        /\ \A j \in 1..(i - 1) :
              /\ items[j].class = "DocumentsLanguages"
              /\ RequiredClasses(package) \ items[j].graph_classes = {}

PastInterfaceValidation ==
    /\ module.importable
    /\ StageRank(ipc) > 2

InterfaceAccepted ==
    \E k \in DOMAIN stdout :
        stdout[k] = Line("Validating module interface: success")

InterfaceRejected ==
    \E k \in DOMAIN stdout :
        stdout[k] = Line("Validating module interface: failed")

\* The callables of the module that are absent or not callable.
Offending == module.missing \cup module.not_callable

\* C22: _validate_module_interface succeeds exactly when get_models and
\* transform are both attributes of the module and both callable; otherwise
\* it raises a CommandError, and the error is the one of the first offending
\* callable in the order get_models, transform.
ModuleInterfaceValidation ==
    PastInterfaceValidation =>
        /\ InterfaceAccepted <=> Offending = {}
        /\ InterfaceRejected <=> Offending # {}
        /\ InterfaceRejected =>
              LET first == IF "get_models" \in Offending
                           THEN "get_models" ELSE "transform"
              IN  /\ ipc = "failed"
                  /\ command_error.names = {first}
                  /\ command_error.kind =
                        IF first \in module.missing
                        THEN "No attribute" ELSE "is not callable"
                  /\ ~ModelsAccepted /\ ~ModelsRejected
                  /\ loaders = <<>>

ModuleInterfaceValidationWitness ==
    /\ PastInterfaceValidation
    /\ InterfaceRejected
    /\ module.not_callable = {"get_models"}
    /\ module.missing = {"transform"}
    /\ command_error = CommandError("is not callable", {"get_models"})

\* ---- C23
\* C23: whatever installs ran, completed or rolled back, no two Company rows
\* share a name, no two Language rows an ISO code, no two Service rows
\* (company, name), no two Document rows their natural key and no two
\* DocumentsLanguages rows (document, language).
NaturalKeyUniqueness == NaturalKeysUnique(db, package)

NaturalKeyUniquenessWitness ==
    /\ ipc = "done"
    /\ db_at_begin # EmptyDb
    /\ Cardinality(db.documents_languages) >= 2
    /\ Cardinality(db.document) >= 2
    /\ \E k \in DOMAIN loaders : loaders[k].found_existing # {}
    /\ db # db_at_begin

\* ---- C24
\* C24: the text a job compares and persists is the fetched text passed
\* through the transforms registered for its Document, in ascending
\* execution priority; for a job whose Document has no Transform row (every
\* job of these runs: the table is empty) it is the fetched text itself.
TransformPipelineOrder ==
    \A i \in DOMAIN tasks :
        tasks[i].state = "Fetching" /\ db.transform = {} =>
            \A result \in Texts, tr \in TransformResults :
                LET out == execute_single_job(tasks[i], snapshot_table,
                                              result, TRUE, tr)
                IN  ~tr.raises =>
                        /\ out.task.text = result
                        /\ \A s \in out.table \ snapshot_table :
                              s.text = result

\* ---- C25
\* C25: a job whose plug-in module cannot be imported does not end Failed:
\* the transform stage is the identity and the job goes on to the compare
\* and persist steps.
UnresolvableTransformContinues ==
    /\ \A i \in DOMAIN tasks :
          ~(tasks[i].state = "Failed" /\ tasks[i].exception = "CommandError")
    /\ \A i \in DOMAIN tasks :
          tasks[i].state = "Fetching" =>
              \A result \in Texts, tr \in TransformResults :
                  LET out == execute_single_job(tasks[i], snapshot_table,
                                                result, FALSE, tr)
                  IN  /\ out.task.state \in {"Unchanged", "Persisted"}
                      /\ out.task.text = result

\* ---- C26
\* C26: a Snapshot row that is stored stays stored with the same field
\* values: no step of a run (and no step of an install, which leaves the
\* snapshot table alone) updates or deletes a row.
SnapshotAppendOnly ==
    [][\A s \in snapshot_table : s \in snapshot_table']_vars

\* A run ended in which a job with stored Snapshots went on to the save with
\* a text other than that of its latest Snapshot; the rows stored when the
\* run began are all there.
SnapshotAppendOnlyWitness ==
    /\ RunEnded
    /\ table_at_query # {}
    /\ table_at_query \subseteq snapshot_table
    /\ \E i \in DOMAIN tasks :
          /\ tasks[i].snapshot # NoSnapshot
          /\ tasks[i].doc_is_changed
          /\ tasks[i].text # tasks[i].snapshot.text
          /\ \E k \in DOMAIN tasks[i].steps : tasks[i].steps[k] = "Persisting"

\* ---- C27
\* The task went on to _save_new_snapshot.
SaveAttempted(t) == \E k \in DOMAIN t.steps : t.steps[k] = "Persisting"

\* C27: the row a job appends belongs to the job's DocumentsLanguages,
\* holds the transformed text and has date, time and datetime set from one
\* timestamp, so that the insert meets the non-null constraints and the row
\* is the latest of its DocumentsLanguages.
SnapshotWriteContract ==
    \A i \in DOMAIN tasks :
        SaveAttempted(tasks[i]) =>
            /\ tasks[i].exception # "IntegrityError"
            /\ \E s \in Inserted(tasks[i].job) :
                  /\ s.text = tasks[i].text
                  /\ s.datetime # NULL
                  /\ s.date = s.datetime /\ s.time = s.datetime
                  /\ \A r \in RowsOf(snapshot_table, tasks[i].job) :
                        r.datetime <= s.datetime

\* ---- C28
\* C28: whatever jobs fail, handle does not raise: once the enabled-jobs
\* query and the latest-snapshot query have returned, no exception leaves
\* handle, and a run that launched tasks ends by writing its status line.
HandleDoesNotRaise ==
    /\ pc = "raised" => tasks = <<>>
    /\ RunEnded =>
          /\ run_exception = ""
          /\ run_status = "Active jobs completed successfully."
          /\ \A i \in DOMAIN tasks : Terminal(tasks[i])

\* A run of several jobs ended in which every job failed.
HandleDoesNotRaiseWitness ==
    /\ RunEnded
    /\ Len(tasks) >= 2
    /\ \A i \in DOMAIN tasks : tasks[i].state = "Failed"
    /\ \E i, k \in DOMAIN tasks : tasks[i].exception # tasks[k].exception
    /\ run_status = "Active jobs completed successfully."

\* ---- C29
\* The Transform rows of the module for a document.
Registrations(d, doc) ==
    Filter(d.transform,
           [document_id |-> doc.document_id, module |-> ModuleName])

\* C29: the docsnaps loader registers the module's transform for a document
\* by get_or_create on (document, module): however often the graph has been
\* loaded there is exactly one such row, the load that creates it records no
\* Transform warning, and a load that finds it records the 'already
\* registered' warning and raises nothing.
TransformRegistrationUpsert ==
    \A k \in DOMAIN loaders :
        package = "docsnaps" =>
            /\ loaders[k].exception \in {"", "django.db.Error"}
            /\ Loaded(k) =>
                  \A doc \in ExistingDocument(loaders[k].db, Items[k], package) :
                      LET already ==
                              \E b \in ExistingDocument(Before(k), Items[k],
                                                        package) :
                                  Registrations(Before(k), b) # {}
                          warning ==
                              Warning("Transform", "already registered",
                                      "module", ModuleName,
                                      Items[k].document_id.name)
                      IN  /\ Cardinality(Registrations(loaders[k].db, doc)) = 1
                          /\ warning \in Warnings(k) <=> already
                          /\ "Transform" \in loaders[k].found_existing
                                <=> already

\* An install over stored rows loaded the same graph twice: each load found
\* the registration and there is still one row.
TransformRegistrationUpsertWitness ==
    /\ package = "docsnaps"
    /\ ipc = "done"
    /\ db_at_begin # EmptyDb
    /\ Len(loaders) = 2
    /\ Items[1] = Items[2]
    /\ "Transform" \in loaders[1].found_existing
    /\ "Transform" \in loaders[2].found_existing
    /\ \A doc \in ExistingDocument(db, Items[1], package) :
          Cardinality(Registrations(db, doc)) = 1
    /\ \E doc \in ExistingDocument(db, Items[1], package) :
          Registrations(db_at_begin, doc) # {}

\* ---- C30
\* C30: a job goes through its steps in the order Pending, Fetching,
\* Transforming, Comparing, then Unchanged or Persisting and Persisted, with
\* Failed possible after any step that is not terminal; a Snapshot is
\* inserted only after the transform, and a terminal step is the last one.
PerJobStepOrder ==
    \A i \in DOMAIN tasks :
        LET steps == tasks[i].steps
            next(step) ==
                CASE step = "Pending" -> {"Fetching", "Failed"}
                  [] step = "Fetching" -> {"Transforming", "Failed"}
                  [] step = "Transforming" -> {"Comparing", "Failed"}
                  [] step = "Comparing" -> {"Unchanged", "Persisting", "Failed"}
                  [] step = "Persisting" -> {"Persisted", "Failed"}
                  [] OTHER -> {}
        IN  /\ steps[1] = "Pending"
            /\ \A k \in 1..(Len(steps) - 1) : steps[k + 1] \in next(steps[k])
            /\ Terminal(tasks[i]) <=>
                  steps[Len(steps)] \in {"Unchanged", "Persisted", "Failed"}
            /\ Inserted(tasks[i].job) # {} =>
                  \E k \in DOMAIN steps : steps[k] = "Transforming"

ForeignKeysResolve(d, pkg) ==
    /\ pkg = "docsnaps" =>
          /\ \A s \in d.service :
                \E c \in d.company : c.company_id = s.company_id
          /\ \A doc \in d.document :
                \E s \in d.service : s.service_id = doc.service_id
          /\ \A t \in d.transform :
                \E doc \in d.document : doc.document_id = t.document_id
    /\ \A dl \in d.documents_languages :
          /\ \E doc \in d.document : doc.document_id = dl.document_id
          /\ \E l \in d.language : l.language_id = dl.language_id

\* C32: the loader stores parents before children (Company, Service,
\* Document, Language, DocumentsLanguages, Transform): in the storage every
\* loader left, a load cut short by an exception included, every foreign key
\* is the key of a stored row, and the rows of the steps before the
\* exception are there.
ReferentialIntegrity ==
    /\ ForeignKeysResolve(db, package)
    /\ \A k \in DOMAIN loaders :
          /\ ForeignKeysResolve(loaders[k].db, package)
          /\ loaders[k].exception = "django.db.Error" =>
                /\ ExistingDocument(loaders[k].db, Items[k], package) # {}
                /\ ExistingLanguage(loaders[k].db, Items[k]) # {}
                /\ ExistingDocsLangs(loaders[k].db, Items[k], package)
                      = ExistingDocsLangs(Before(k), Items[k], package)
                /\ loaders[k].db.transform = Before(k).transform

\* The docsnaps loader of a second graph was cut short after it had stored
\* a new Document under the stored Service.
ReferentialIntegrityWitness ==
    /\ package = "docsnaps"
    /\ ipc = "exception"
    /\ Len(loaders) = 2
    /\ loaders[2].exception = "django.db.Error"
    /\ Cardinality(db.document) > Cardinality(loaders[1].db.document)
    /\ Cardinality(db.service) = Cardinality(loaders[1].db.service)
    /\ ExistingDocsLangs(db, Items[2], package) = {}

\* ---- C33
\* C33: a failed GET (connection failure, bad status or timeout) is caught in
\* _request_document and leaves it as the CommandError of the job's failure,
\* never as an exception of another class.
FetchFailuresClassified ==
    \A i \in DOMAIN tasks :
        tasks[i].fetch_result \in FetchErrors =>
            /\ tasks[i].state = "Failed"
            /\ tasks[i].exception = "CommandError"

\* ---- C34
\* A loader of the install raised.
LoaderRaised == \E k \in DOMAIN loaders : loaders[k].exception # ""

\* C34: when a loader raises a database error or MultipleObjectsReturned,
\* _load_models ends by raising the CommandError of that exception after
\* writing 'failed'; it writes neither 'success' nor a warning line and the
\* install is never reported as done.
LoadFailureIsCommandError ==
    LoaderRaised =>
        /\ ipc \in {"exception", "failed"}
        /\ loaders[Len(loaders)].exception # ""
        /\ \A k \in DOMAIN stdout :
              /\ stdout[k] # Line("Attempting to load module data: success")
              /\ stdout[k].text # "warning: "
        /\ ipc = "failed" =>
              /\ stdout[Len(stdout)]
                    = Line("Attempting to load module data: failed")
              /\ command_error =
                    IF loaders[Len(loaders)].exception
                           = "MultipleObjectsReturned"
                    THEN CommandError("Multiple identical records returned",
                                      {})
                    ELSE CommandError("A database error occurred", {})

\* The second loader of an install over stored rows raised a database error
\* after the first had recorded warnings, and the command ended.
LoadFailureIsCommandErrorWitness ==
    /\ ipc = "failed"
    /\ Len(loaders) = 2
    /\ loaders[1].exception = "" /\ loaders[1].warnings # <<>>
    /\ loaders[2].exception = "django.db.Error"
    /\ command_error = CommandError("A database error occurred", {})
    /\ db = db_at_begin

\* ---- C35
\* C35: a database error met by the enabled-jobs query or by the
\* latest-snapshot query leaves handle as CommandError, and that run has
\* created no task, opened no HTTP session and written no Snapshot.
QueryErrorIsCommandError ==
    pc = "raised" /\ tasks = <<>> =>
        /\ run_exception = "CommandError"
        /\ client_session = "none"
        /\ snapshots = <<>>
        /\ table_at_query = {}

\* ---- C36
\* C36: the ClientSession of a run is closed when the run ends, whether its
\* jobs succeeded or raised, and the response of every GET that was answered
\* is released when _request_document is left, with the text or with the
\* exception of a bad status, in the run command of either package.
ResourcesReleased ==
    /\ pc \in {"done", "raised"} => client_session # "open"
    /\ \A i \in DOMAIN tasks :
          /\ Terminal(tasks[i]) => tasks[i].response # "open"
          /\ tasks[i].state = "Fetching" =>
                \A pkg \in Packages, result \in Texts \cup {"http-status-error"} :
                    response_after_request(pkg, result) = "released"

\* ---- C37
\* The instance a foreign key of the model refers to, as a sequence: empty
\* when there is no model or the key is not set.
Related(models, field) ==
    IF models # <<>> /\ field \in DOMAIN models[1]
    THEN <<models[1][field]>> ELSE <<>>

\* The level order of the graph under a DocumentsLanguages instance.
LevelOrder(root) ==
    LET document == Related(<<root>>, "document_id")
        language == Related(<<root>>, "language_id")
        service == Related(document, "service_id")
        company == Related(service, "company_id")
    IN  <<root>> \o document \o language \o service \o company

FlattenRejectsOtherRoots ==
    flatten_model.class \notin {"None", "DocumentsLanguages"} =>
        /\ flattened = <<>>
        /\ fpc # "exhausted"

====
